---- MODULE Spec2Model ----
(***************************************************************************)
(* The Monkey parser (src/src/parser/parser.go) and the shell loop that    *)
(* drives it (src/src/repl/repl.go), as a state machine.                   *)
(*                                                                         *)
(* The packages token, lexer, ast and evaluator are not among the sources: *)
(* what the parser and the shell use of them is modelled from the written  *)
(* specification (a lexer hands out the tokens of its input one at a time  *)
(* and then end-of-input for ever).                                        *)
(***************************************************************************)
EXTENDS Integers, Sequences, FiniteSets, TLC

(* State *)

VARIABLES
    src,        \* the token stream of the source text being parsed
    p,          \* the Parser (its lexer in p.l); NoParser before the first New
    program,    \* ParseProgram's program
    stmt,       \* the statement being parsed, as the ast.Statement returned
    pc,         \* where the parse stands
    starts,     \* for each entry of program.Statements, the index in src of its first token
    at,         \* the index in src of the first token of the statement being parsed
    windows,    \* every (curToken, peekToken) the parser in p has stepped through
    failed,     \* the indices in src of the lets for which parseLetStatment returned nil, in order
    registered, \* the last registerPrefix / registerInfix call made: table, kind, fn
    run,        \* which parse of src this is: the first or the second
    first,      \* what the first parse of src returned
    replPc,     \* where Start stands; "off" when a parser is run on its own
    scanned,    \* the lines the scanner has yielded
    prompts,    \* the prompts printed
    out,        \* for each finished cycle, its line and the kind of output written
    written,    \* the text written to out in the latest cycle
    evalCalls   \* the calls of evaluator.Eval made

parserVars == << src, p, program, stmt, pc, starts, at, windows, failed >>
replVars == << replPc, scanned, prompts, out, written, evalCalls >>
vars == << parserVars, run, first, registered, replVars >>

\* The longest token stream given to one parser.
MaxLen == 5

----------------------------------------------------------------------------
(* package token *)

LET_ == "LET"
RETURN_ == "RETURN"
IDENT == "IDENT"
ASSIGN == "ASSIGN"
SEMICOLON == "SEMICOLON"
INT == "INT"
EOF == "EOF"

Token(type, literal) == [Type |-> type, Literal |-> literal]

\* Go's zero value of token.Token: the parser's window before New fills it.
ZeroToken == Token("", "")

EOFToken == Token(EOF, "")

\* The tokens a source text is made of.
Alphabet ==
    { Token(LET_, "let"), Token(RETURN_, "return"), Token(IDENT, "x"),
      Token(ASSIGN, "="), Token(SEMICOLON, ";"), Token(INT, "5") }

\* Every token stream of at most MaxLen tokens.
Streams == UNION { [1..n -> Alphabet] : n \in 0..MaxLen }

----------------------------------------------------------------------------
(* package lexer *)

\* lexer.New(input): nothing handed out yet.
LexerNew(input) == [input |-> input, position |-> 0]

\* The i-th token of the lexer's stream: the input's tokens, then EOF for ever.
TokenAt(l, i) == IF i <= Len(l.input) THEN l.input[i] ELSE EOFToken

\* Where the cursor rests: past the input and the two end-of-input tokens
\* that fill a parser's window. A call made there returns end-of-input again
\* and leaves the lexer as it is.
LexerEnd(l) == Len(l.input) + 2

\* l.NextToken(): the token handed out, and the lexer afterwards.
LexerNextToken(l) ==
    [ tok |-> TokenAt(l, l.position + 1),
      l   |-> [l EXCEPT !.position =
                  IF l.position < LexerEnd(l) THEN l.position + 1 ELSE l.position] ]

----------------------------------------------------------------------------
(* package ast, as far as the parser builds it *)

\* A nil map, a nil pointer: a pointer is a sequence of no or one node.
NilMap == "nil"
NilPtr == <<>>
Ptr(node) == <<node>>

\* &ast.Identifier{Token: tok, Value: tok.Literal}
Identifier(tok) == [Token |-> tok, Value |-> tok.Literal]

\* &ast.LetStatement{Token: tok}: Name and Value are nil until assigned.
LetStatement(tok) == [Token |-> tok, Name |-> NilPtr, Value |-> NilPtr]

\* &ast.ReturnStatement{Token: tok}
ReturnStatement(tok) == [Token |-> tok, ReturnValue |-> NilPtr]

\* A value of the interface type ast.Statement: its dynamic type and the
\* pointer it holds. The nil interface has no dynamic type; a nil
\* *ast.LetStatement converted to ast.Statement keeps its dynamic type.
NilStatement == [dyn |-> "nil", ptr |-> NilPtr]
AsStatement(dyn, ptr) == [dyn |-> dyn, ptr |-> ptr]

PtrLet == "*ast.LetStatement"
PtrReturn == "*ast.ReturnStatement"

----------------------------------------------------------------------------
(* package parser: the methods that act on the Parser alone *)

curTokenIs(q, t) == q.curToken.Type = t

peekTokenIs(q, t) == q.peekToken.Type = t

\* A plausible slip: the window is refilled from the lexer without the shift.
nextTokenNoShift(q) ==
    LET r == LexerNextToken(q.l)
    IN  [q EXCEPT !.curToken = r.tok, !.peekToken = r.tok, !.l = r.l]

nextToken(q) ==
    LET r == LexerNextToken(q.l)
    IN  [q EXCEPT !.curToken = q.peekToken, !.peekToken = r.tok, !.l = r.l]

\* A plausible slip: the newest diagnostic is put in front.
peekErrorsPrepends(q, t) ==
    [q EXCEPT !.errors =
        << "expected next token to be " \o t \o ", got " \o q.peekToken.Type \o " instead" >> \o @]

peekErrors(q, t) ==
    [q EXCEPT !.errors = Append(@,
        "expected next token to be " \o t \o ", got " \o q.peekToken.Type \o " instead")]

\* A plausible slip: the unexpected token is consumed as well.
expectPeekConsumes(q, t) ==
    IF peekTokenIs(q, t)
    THEN [p |-> nextToken(q), ok |-> TRUE]
    ELSE [p |-> nextToken(peekErrors(q, t)), ok |-> FALSE]

expectPeek(q, t) ==
    IF peekTokenIs(q, t)
    THEN [p |-> nextToken(q), ok |-> TRUE]
    ELSE [p |-> peekErrors(q, t), ok |-> FALSE]

\* &Parser{l: l, errors: []string{}}: the window and the two tables are zero values.
NewStruct(l) ==
    [ l              |-> l,
      curToken       |-> ZeroToken,
      peekToken      |-> ZeroToken,
      errors         |-> <<>>,
      prefixParseFns |-> NilMap,
      infixParseFns  |-> NilMap ]

\* A plausible slip: the diagnostics live on from the parser built before.
NewKeepsErrors(l) == nextToken(nextToken([NewStruct(l) EXCEPT !.errors = p.errors]))

New(l) == nextToken(nextToken(NewStruct(l)))

\* m[k] = v on a Go map: a nil map takes no entry, the assignment panics.
MapSet(m, k, v) ==
    IF m = NilMap
    THEN [m |-> m, panic |-> TRUE]
    ELSE [m |-> [x \in DOMAIN m \cup {k} |-> IF x = k THEN v ELSE m[x]], panic |-> FALSE]

\* p.prefixParseFns[tokenType] = fn
registerPrefix(q, tokenType, fn) ==
    LET r == MapSet(q.prefixParseFns, tokenType, fn)
    IN  [p |-> [q EXCEPT !.prefixParseFns = r.m], panic |-> r.panic]

\* p.infixParseFns[tokenType] = fn
registerInfix(q, tokenType, fn) ==
    LET r == MapSet(q.infixParseFns, tokenType, fn)
    IN  [p |-> [q EXCEPT !.infixParseFns = r.m], panic |-> r.panic]

\* ParseProgram's test `stmt != nil` on the interface value.
stmtNotNil(s) == s.dyn # "nil"

----------------------------------------------------------------------------
(* package repl *)

\* The most lines the shell is given, and the longest of them in tokens.
MaxLines == 2
MaxLineLen == 4

Lines == UNION { [1..n -> Alphabet] : n \in 0..MaxLineLen }

\* What printParserErrors writes: the banner, two headings, one line per message.
RECURSIVE ErrorLines(_)
ErrorLines(errors) ==
    IF errors = << >> THEN << >>
    ELSE << "\t" \o Head(errors) \o "\n" >> \o ErrorLines(Tail(errors))

printParserErrors(errors) ==
    << "MONKEY_FACE", "Woops! We ran into some monkey business here!\n",
       " parser errors:\n" >> \o ErrorLines(errors)

\* const DEBUG = false
DEBUG == FALSE

\* evaluator.Eval(program): the one argument Start passes. No Environment is
\* among the arguments.
NoEnv == "none"
\* The names the let statements of a program bind.
LetNames(prog) ==
    { prog.Statements[i].ptr[1].Name[1].Value :
        i \in { j \in 1..Len(prog.Statements) :
                   /\ prog.Statements[j].dyn = PtrLet
                   /\ prog.Statements[j].ptr # NilPtr } }

EvalCall(line, prog) == [line |-> line, env |-> NoEnv, lets |-> LetNames(prog)]

\* What Eval may return: nil, or an Object whose Inspect() is printed.
Evaluated == { "nil", "object" }

Errors(q) == q.errors

\* A plausible slip: the `continue` after printParserErrors is missing.
AfterParseNoContinue(q, prog, line, ev) ==
    [ written |-> (IF Len(Errors(q)) # 0 THEN printParserErrors(Errors(q)) ELSE << >>)
                  \o (IF ev # "nil" THEN << "Inspect", "\n" >> ELSE << >>),
      calls   |-> << EvalCall(line, prog) >>,
      kind    |-> IF Len(Errors(q)) # 0 THEN "errors" ELSE IF ev # "nil" THEN "value" ELSE "none" ]

\* A plausible slip: a diagnostic of an earlier line still counts.
AfterParseRemembers(q, prog, line, ev) ==
    IF Len(Errors(q)) # 0 \/ (\E i \in DOMAIN out : out[i].kind = "errors")
    THEN [ written |-> printParserErrors(Errors(q)),
           calls   |-> << >>,
           kind    |-> "errors" ]
    ELSE [ written |-> (IF ev # "nil" THEN << "Inspect", "\n" >> ELSE << >>),
           calls   |-> << EvalCall(line, prog) >>,
           kind    |-> IF ev # "nil" THEN "value" ELSE "none" ]

\* Start, from the return of ParseProgram to the end of the loop's body: what
\* is written to out, the calls of Eval made, and the kind of output.
AfterParse(q, prog, line, ev) ==
    IF Len(Errors(q)) # 0
    THEN [ written |-> printParserErrors(Errors(q)),
           calls   |-> << >>,
           kind    |-> "errors" ]
    ELSE [ written |-> (IF ev # "nil" THEN << "Inspect", "\n" >> ELSE << >>)
                       \o (IF DEBUG THEN << "DEBUG AST: ", "String", "\n" >> ELSE << >>),
           calls   |-> << EvalCall(line, prog) >>,
           kind    |-> IF ev # "nil" THEN "value" ELSE "none" ]

----------------------------------------------------------------------------
(* Initial states *)

NoParser == NewStruct(LexerNew(<< >>))

NoProgram == [Statements |-> << >>]

Window(q) == << q.curToken, q.peekToken >>

\* The windows a step adds: one per token the lexer hands out.
Stepped(q, r) == IF r.l.position # q.l.position THEN << Window(r) >> ELSE << >>

NoResult == [program |-> NoProgram, errors |-> << >>, windows |-> << >>]

InitParser ==
    /\ p = NoParser
    /\ program = NoProgram
    /\ stmt = NilStatement
    /\ starts = << >>
    /\ at = 0
    /\ windows = << >>
    /\ failed = << >>
    /\ registered = << >>
    /\ run = 1
    /\ first = NoResult

InitRepl ==
    /\ scanned = 0
    /\ prompts = 0
    /\ out = << >>
    /\ written = << >>
    /\ evalCalls = << >>

\* One parser over one token stream.
Init ==
    /\ src \in Streams
    /\ pc = "new"
    /\ replPc = "off"
    /\ InitParser
    /\ InitRepl

\* The shell at the top of Start.
ReplInit ==
    /\ src = << >>
    /\ pc = "idle"
    /\ replPc = "scan"
    /\ InitParser
    /\ InitRepl

----------------------------------------------------------------------------
(* Parser actions *)

\* l := lexer.New(line); p := parser.New(l)
NewParser ==
    /\ pc = "new"
    /\ p' = New(LexerNew(src))
    /\ windows' = << Window(nextToken(NewStruct(LexerNew(src)))), Window(p') >>
    /\ pc' = "ready"
    /\ failed' = << >>
    /\ UNCHANGED << src, program, stmt, starts, at, run, first, registered, replVars >>

\* ParseProgram, up to its loop.
ParseProgramEnter ==
    /\ pc = "ready"
    /\ program' = [Statements |-> << >>]
    /\ starts' = << >>
    /\ pc' = "loop"
    /\ UNCHANGED << src, p, stmt, at, failed, windows, run, first, registered, replVars >>

\* The loop's test fails: return program.
ParseProgramReturn ==
    /\ pc = "loop"
    /\ p.curToken.Type = EOF
    /\ pc' = "done"
    /\ UNCHANGED << src, p, program, stmt, starts, at, failed, windows, run, first, registered, replVars >>

\* The loop's test holds: parseStatement switches on the current token.
parseStatement ==
    /\ pc = "loop"
    /\ p.curToken.Type # EOF
    /\ at' = p.l.position - 1
    /\ IF p.curToken.Type = LET_
       THEN /\ stmt' = AsStatement(PtrLet, Ptr(LetStatement(p.curToken)))
            /\ pc' = "letIdent"
       ELSE IF p.curToken.Type = RETURN_
       THEN /\ stmt' = AsStatement(PtrReturn, Ptr(ReturnStatement(p.curToken)))
            /\ pc' = "retNext"
       ELSE /\ stmt' = NilStatement
            /\ pc' = "append"
    /\ UNCHANGED << src, p, program, starts, windows, failed, run, first, registered, replVars >>

\* parseLetStatment: expectPeek(token.IDENT), then the name.
parseLetIdent ==
    /\ pc = "letIdent"
    /\ LET r == expectPeek(p, IDENT)
       IN  /\ p' = r.p
           /\ windows' = windows \o Stepped(p, r.p)
           /\ IF r.ok
              THEN /\ stmt' = AsStatement(PtrLet,
                                 Ptr([stmt.ptr[1] EXCEPT !.Name = Ptr(Identifier(r.p.curToken))]))
                   /\ pc' = "letAssign"
              ELSE /\ stmt' = AsStatement(PtrLet, NilPtr)
                   /\ pc' = "append"
           /\ failed' = IF r.ok THEN failed ELSE Append(failed, at)
    /\ UNCHANGED << src, program, starts, at, run, first, registered, replVars >>

\* parseLetStatment: expectPeek(token.ASSIGN).
parseLetAssign ==
    /\ pc = "letAssign"
    /\ LET r == expectPeek(p, ASSIGN)
       IN  /\ p' = r.p
           /\ windows' = windows \o Stepped(p, r.p)
           /\ IF r.ok
              THEN /\ stmt' = stmt
                   /\ pc' = "letSkip"
              ELSE /\ stmt' = AsStatement(PtrLet, NilPtr)
                   /\ pc' = "append"
           /\ failed' = IF r.ok THEN failed ELSE Append(failed, at)
    /\ UNCHANGED << src, program, starts, at, run, first, registered, replVars >>

\* One turn of `for !p.curTokenIs(token.SEMICOLON) { p.nextToken() }`, or the
\* return of the statement once the loop's test fails.
SkipToSemicolon(here) ==
    /\ pc = here
    /\ IF curTokenIs(p, SEMICOLON)
       THEN /\ pc' = "append"
            /\ UNCHANGED << p, windows >>
       ELSE /\ p' = nextToken(p)
            /\ windows' = windows \o Stepped(p, p')
            /\ pc' = here
    /\ UNCHANGED << src, program, stmt, starts, at, failed, run, first, registered, replVars >>

parseLetSkip == SkipToSemicolon("letSkip")

\* parseReturnStatment: the statement, then nextToken.
parseReturnNext ==
    /\ pc = "retNext"
    /\ p' = nextToken(p)
    /\ windows' = windows \o Stepped(p, p')
    /\ pc' = "retSkip"
    /\ UNCHANGED << src, program, stmt, starts, at, failed, run, first, registered, replVars >>

parseReturnSkip == SkipToSemicolon("retSkip")

\* A plausible slip: the loop advances twice behind a statement.
ParseProgramAppendAdvancesTwice ==
    /\ pc = "append"
    /\ IF stmtNotNil(stmt)
       THEN /\ program' = [program EXCEPT !.Statements = Append(@, stmt)]
            /\ starts' = Append(starts, at)
       ELSE UNCHANGED << program, starts >>
    /\ p' = nextToken(nextToken(p))
    /\ windows' = windows \o Stepped(p, nextToken(p)) \o Stepped(nextToken(p), p')
    /\ pc' = "loop"
    /\ UNCHANGED << src, stmt, at, failed, run, first, registered, replVars >>

\* ParseProgram: `if stmt != nil { append }`, then nextToken.
ParseProgramAppend ==
    /\ pc = "append"
    /\ IF stmtNotNil(stmt)
       THEN /\ program' = [program EXCEPT !.Statements = Append(@, stmt)]
            /\ starts' = Append(starts, at)
       ELSE UNCHANGED << program, starts >>
    /\ p' = nextToken(p)
    /\ windows' = windows \o Stepped(p, p')
    /\ pc' = "loop"
    /\ UNCHANGED << src, stmt, at, failed, run, first, registered, replVars >>

ParserStep ==
    \/ NewParser
    \/ ParseProgramEnter
    \/ ParseProgramReturn
    \/ parseStatement
    \/ parseLetIdent
    \/ parseLetAssign
    \/ parseLetSkip
    \/ parseReturnNext
    \/ parseReturnSkip
    \/ ParseProgramAppend

\* The same source is given to a second lexer and a second parser, built
\* while the first parser still exists.
Reparse ==
    /\ replPc = "off"
    /\ pc = "done"
    /\ run = 1
    /\ first' = [program |-> program, errors |-> p.errors, windows |-> windows]
    /\ run' = 2
    /\ pc' = "new"
    /\ UNCHANGED << src, p, program, stmt, starts, at, failed, windows, registered, replVars >>

Next == ParserStep \/ Reparse

Spec == Init /\ [][Next]_vars

\* The parser is a running program: a step that can be taken is taken.
FairSpec == Spec /\ WF_vars(Next)

\* The token kinds and the parse functions given to the two register methods,
\* and the most registrations made on one parser.
Kinds == { IDENT, INT }
ParseFns == { "fnA", "fnB" }
MaxRegistered == 2

\* p.registerPrefix(tokenType, fn) on the parser New returned.
RegisterPrefix ==
    /\ replPc = "off"
    /\ pc = "ready"
    /\ Len(registered) < MaxRegistered
    /\ \E k \in Kinds, fn \in ParseFns :
          LET r == registerPrefix(p, k, fn)
          IN  /\ p' = r.p
              /\ pc' = IF r.panic THEN "panic" ELSE "ready"
              /\ registered' = Append(registered, [table |-> "prefix", kind |-> k, fn |-> fn])
    /\ UNCHANGED << src, program, stmt, starts, at, windows, failed, run, first, replVars >>

\* p.registerInfix(tokenType, fn) on the parser New returned.
RegisterInfix ==
    /\ replPc = "off"
    /\ pc = "ready"
    /\ Len(registered) < MaxRegistered
    /\ \E k \in Kinds, fn \in ParseFns :
          LET r == registerInfix(p, k, fn)
          IN  /\ p' = r.p
              /\ pc' = IF r.panic THEN "panic" ELSE "ready"
              /\ registered' = Append(registered, [table |-> "infix", kind |-> k, fn |-> fn])
    /\ UNCHANGED << src, program, stmt, starts, at, windows, failed, run, first, replVars >>

TableNext == ParserStep \/ RegisterPrefix \/ RegisterInfix

\* A parser is built, may be given parse functions, and parses.
TableSpec == Init /\ [][TableNext]_vars

----------------------------------------------------------------------------
(* Shell actions *)

\* fmt.Print(PROMPT); scanner.Scan() yields a line; line := scanner.Text().
ScanLine ==
    /\ replPc = "scan"
    /\ scanned < MaxLines
    /\ prompts' = prompts + 1
    /\ scanned' = scanned + 1
    /\ src' \in Lines
    /\ written' = << >>
    /\ pc' = "new"
    /\ replPc' = "parse"
    /\ UNCHANGED << p, program, stmt, starts, at, failed, windows, run, first, registered, out, evalCalls >>

\* fmt.Print(PROMPT); scanner.Scan() yields no line: Start returns.
ScanEnd ==
    /\ replPc = "scan"
    /\ prompts' = prompts + 1
    /\ replPc' = "returned"
    /\ UNCHANGED << parserVars, run, first, registered, scanned, out, written, evalCalls >>

\* ParseProgram has returned: the rest of the loop's body.
FinishCycle ==
    /\ replPc = "parse"
    /\ pc = "done"
    /\ \E ev \in Evaluated :
          LET r == AfterParse(p, program, scanned, ev)
          IN  /\ written' = r.written
              /\ evalCalls' = evalCalls \o r.calls
              /\ out' = Append(out, [line |-> scanned, kind |-> r.kind])
    \* line, l, p and program are the loop body's own: they end with it.
    /\ src' = << >>
    /\ p' = NoParser
    /\ program' = NoProgram
    /\ stmt' = NilStatement
    /\ starts' = << >>
    /\ at' = 0
    /\ windows' = << >>
    /\ failed' = << >>
    /\ UNCHANGED << run, first, registered >>
    /\ pc' = "idle"
    /\ replPc' = "scan"
    /\ UNCHANGED << scanned, prompts >>

ReplNext == ScanLine \/ ScanEnd \/ ParserStep \/ FinishCycle

ReplSpec == ReplInit /\ [][ReplNext]_vars

\* The shell is a running program: a step that can be taken is taken.
FairReplSpec == ReplSpec /\ WF_vars(ReplNext)

----------------------------------------------------------------------------
(* Properties *)

\* The stream the lexer of src hands out: src, then EOF for ever.
SrcAt(i) == TokenAt(LexerNew(src), i)

Statements == program.Statements

\* C1: on every finite token stream ParseProgram eventually returns, also
\* when a let or return statement has no SEMICOLON before the end of input:
\* until it has returned, the parser can take a step that changes its state.
\* (Every such step moves pc on or pulls a token the lexer had not handed out,
\* so a parser that can always take one returns. Where it cannot, it is in a
\* loop whose every turn reads EOF once more and changes nothing.)
C1_ParseProgramReturns == pc = "done" \/ ENABLED <<Next>>_vars

\* The diagnostic expectPeek(t) is to record when it meets the kind got.
Expected(t, got) == "expected next token to be " \o t \o ", got " \o got \o " instead"

\* The kind the expectPeek at pc asks for, and where its caller goes on true.
ExpectedAt == [letIdent |-> IDENT, letAssign |-> ASSIGN]
OnTrue == [letIdent |-> "letAssign", letAssign |-> "letSkip"]

\* C2: expectPeek(t) on a peek token of another kind appends exactly the
\* diagnostic "expected next token to be <t>, got <peek kind> instead", leaves
\* curToken, peekToken and the lexer as they are, and returns false; on a peek
\* token of kind t it advances the window by exactly one token, appends
\* nothing, and returns true.
C2_ExpectPeekEffect ==
    [][ \A here \in DOMAIN ExpectedAt :
          pc = here =>
            IF p.peekToken.Type # ExpectedAt[here]
            THEN /\ p'.errors = Append(p.errors, Expected(ExpectedAt[here], p.peekToken.Type))
                 /\ p'.curToken = p.curToken
                 /\ p'.peekToken = p.peekToken
                 /\ p'.l = p.l
                 /\ pc' = "append"
                 /\ stmt'.ptr = NilPtr
            ELSE /\ p'.errors = p.errors
                 /\ p'.curToken = p.peekToken
                 /\ p'.peekToken = TokenAt(p.l, p.l.position + 1)
                 /\ p'.l.position = p.l.position + 1
                 /\ pc' = OnTrue[here]
                 /\ stmt'.ptr # NilPtr ]_vars

\* `let x 5`: the first expectPeek has advanced onto x, the second has met 5.
C2_Witness ==
    /\ pc = "append"
    /\ stmt = AsStatement(PtrLet, NilPtr)
    /\ p.curToken = Token(IDENT, "x")
    /\ p.peekToken = Token(INT, "5")
    /\ p.errors = << "expected next token to be ASSIGN, got INT instead" >>

\* The let at index i of src is followed by IDENT and then ASSIGN.
LetHead(i) ==
    /\ SrcAt(i).Type = LET_
    /\ SrcAt(i + 1).Type = IDENT
    /\ SrcAt(i + 2).Type = ASSIGN

\* C3: a statement-initial let that is not followed by IDENT and then ASSIGN
\* leaves at least one diagnostic and no LetStatement entry in the Program:
\* every entry of that type stands for a let with such a head, and is a node.
C3_NoStatementForFailedLet ==
    /\ (pc = "append" /\ SrcAt(at).Type = LET_ /\ ~LetHead(at)) => Len(p.errors) > 0
    /\ \A i \in DOMAIN Statements :
          Statements[i].dyn = PtrLet => /\ LetHead(starts[i])
                                        /\ Statements[i].ptr # NilPtr

\* C4: a let statement is accepted only when the tokens are LET, IDENT, ASSIGN,
\* a non-empty expression, SEMICOLON, and the LetStatement then carries the
\* name and the parsed value expression; `let x = ;` is not accepted.
C4_LetAcceptedOnlyWithExpression ==
    \A i \in DOMAIN Statements :
        (Statements[i].dyn = PtrLet /\ Statements[i].ptr # NilPtr) =>
            /\ LetHead(starts[i])
            /\ SrcAt(starts[i] + 3).Type # SEMICOLON
            /\ Statements[i].ptr[1].Name # NilPtr
            /\ Statements[i].ptr[1].Value # NilPtr

\* C5: an input whose first statement begins with a token other than LET or
\* RETURN (an expression statement) gives a Program with a statement for it.
C5_ExpressionStatementParsed ==
    (pc = "done" /\ Len(src) > 0 /\ src[1].Type \in {INT, IDENT}) =>
        /\ Len(Statements) > 0
        /\ starts[1] = 1

\* s is an initial part of t.
IsPrefix(s, t) == Len(s) <= Len(t) /\ \A i \in 1..Len(s) : s[i] = t[i]

HasErrorHeading(text) == \E i \in DOMAIN text : text[i] = " parser errors:\n"

\* The calls of Eval made for line n.
CallsFor(n) == { i \in DOMAIN evalCalls : evalCalls[i].line = n }

\* C7: when the parse of a line left diagnostics, they are printed and the
\* evaluator is not invoked for that line; when it left none, the evaluator is
\* invoked exactly once for that line and no parser-error output is printed.
C7_DiagnosticsBlockEvaluation ==
    [][ /\ (replPc = "parse" /\ pc = "done" /\ Len(p.errors) # 0) =>
            /\ HasErrorHeading(written')
            /\ \A i \in DOMAIN p.errors :
                  \E j \in DOMAIN written' : written'[j] = "\t" \o p.errors[i] \o "\n"
            /\ evalCalls' = evalCalls
            /\ CallsFor(scanned) = {}
        /\ (replPc = "parse" /\ pc = "done" /\ Len(p.errors) = 0) =>
            /\ ~HasErrorHeading(written')
            /\ Len(evalCalls') = Len(evalCalls) + 1
            /\ CallsFor(scanned)' = {Len(evalCalls')}
        /\ ~(replPc = "parse" /\ pc = "done") => evalCalls' = evalCalls ]_vars

\* A line with a diagnostic, not evaluated, then a line without, evaluated.
C7_Witness ==
    /\ Len(out) = 2
    /\ out[1].kind = "errors"
    /\ out[2].kind = "value"
    /\ CallsFor(1) = {}
    /\ CallsFor(2) = {1}

\* The names an Environment resolves; without an Environment there is none.
Resolvable(env) == IF env = NoEnv THEN {} ELSE env.store

\* C8: every evaluation is given the one Environment of the session, so a
\* binding a let made on one line is visible to the evaluations of later lines.
C8_SessionEnvironment ==
    \A j \in DOMAIN evalCalls :
        /\ evalCalls[j].env # NoEnv
        /\ evalCalls[j].env = evalCalls[1].env
        /\ \A i \in 1..(j - 1) : evalCalls[i].lets \subseteq Resolvable(evalCalls[j].env)

\* C9: every line gets exactly one parse(+evaluate) cycle, in input order,
\* and Start returns once the input is exhausted: the finished cycles are
\* those of lines 1, 2, ... in this order, all of them once Start has
\* returned, and until then Start can take a step that changes its state.
C9_OneCyclePerLine ==
    /\ \A i \in DOMAIN out : out[i].line = i
    /\ replPc = "returned" => Len(out) = scanned
    /\ replPc = "returned" \/ ENABLED <<ReplNext>>_vars

\* C10: once New has returned, curToken is the i-th token of the lexer's
\* stream and peekToken the (i+1)-th; New leaves the 1st and the 2nd; every
\* nextToken pulls one token and shifts the window by one, so the windows
\* stepped through are those at 0, 1, 2, ... with none skipped or repeated.
C10_TwoTokenLookahead ==
    /\ pc \notin {"new", "idle"} => /\ p.l.input = src
                                   /\ p.l.position >= 2
    /\ pc = "ready" => p.l.position = 2
    /\ p.l.position >= 2 =>
          /\ p.curToken = TokenAt(p.l, p.l.position - 1)
          /\ p.peekToken = TokenAt(p.l, p.l.position)
    /\ Len(windows) = p.l.position
    /\ \A k \in DOMAIN windows :
          windows[k] = << IF k = 1 THEN ZeroToken ELSE TokenAt(p.l, k - 1), TokenAt(p.l, k) >>

C10_Witness ==
    /\ pc = "done"
    /\ run = 1
    /\ Len(src) >= 3
    /\ p.l.position = Len(src) + 2
    /\ p.curToken = EOFToken

\* The index of curToken in the lexer's stream.
CurIndex == p.l.position - 1

\* A well-formed statement begins at index k of src: LET IDENT ASSIGN ... ;
\* or RETURN ... ; with the SEMICOLON in src.
Terminated(k) == \E t \in k..Len(src) : src[t].Type = SEMICOLON

WellFormedAt(k) ==
    \/ LetHead(k) /\ Terminated(k + 3)
    \/ SrcAt(k).Type = RETURN_ /\ Terminated(k + 1)

\* The SEMICOLON that ends the statement beginning at k.
EndOf(k) == CHOOSE t \in (k + 1)..Len(src) :
                /\ src[t].Type = SEMICOLON
                /\ \A u \in (k + 1)..(t - 1) : src[u].Type # SEMICOLON

\* The statement beginning at k is in the Program, as a node of its kind.
Appended(k) ==
    \E n \in DOMAIN Statements :
        /\ starts[n] = k
        /\ Statements[n].ptr # NilPtr
        /\ Statements[n].dyn = IF SrcAt(k).Type = LET_ THEN PtrLet ELSE PtrReturn
        /\ Statements[n].ptr[1].Token = SrcAt(k)

C12_StatementsAppendOnly ==
    [][ /\ pc \notin {"new", "ready"} => IsPrefix(Statements, Statements')
        /\ \A i \in DOMAIN Statements' : Statements'[i].ptr # NilPtr
        /\ \A i \in DOMAIN Statements' :
              /\ SrcAt(starts'[i]).Type \in {LET_, RETURN_}
              /\ \A j \in DOMAIN Statements' : i < j => starts'[i] < starts'[j] ]_vars

\* C13: every LetStatement in the resulting Program has a non-nil Name
\* Identifier whose Value is the literal of the IDENT token that directly
\* followed `let` in the input.
C13_LetHasName ==
    \A i \in DOMAIN Statements :
        Statements[i].dyn = PtrLet =>
            /\ Statements[i].ptr # NilPtr
            /\ Statements[i].ptr[1].Name # NilPtr
            /\ SrcAt(starts[i] + 1).Type = IDENT
            /\ Statements[i].ptr[1].Name[1].Value = SrcAt(starts[i] + 1).Literal

\* The diagnostic of the let that begins at token f: its first mismatch.
MsgAt(f) ==
    IF SrcAt(f + 1).Type # IDENT
    THEN Expected(IDENT, SrcAt(f + 1).Type)
    ELSE Expected(ASSIGN, SrcAt(f + 2).Type)

NumLets == Cardinality({ i \in DOMAIN src : src[i].Type = LET_ })

\* One diagnostic per failed let, in the order of the lets in the input.
ErrorsInSourceOrder ==
    /\ Len(p.errors) = Len(failed)
    /\ Len(p.errors) <= NumLets
    /\ \A i \in DOMAIN failed :
          /\ SrcAt(failed[i]).Type = LET_
          /\ p.errors[i] = MsgAt(failed[i])
          /\ \A j \in DOMAIN failed : i < j => failed[i] < failed[j]

\* C14: during a parse the errors list only grows at its end; one
\* parseLetStatment call appends at most one diagnostic and
\* parseReturnStatment none; so Errors() holds at most as many diagnostics as
\* the input has LET tokens, one per failed let, in source order.
C14_DiagnosticsAppendOnly ==
    [][ /\ pc # "new" => /\ IsPrefix(p.errors, p'.errors)
                         /\ Len(p'.errors) <= Len(p.errors) + 1
        /\ pc \notin {"new", "letIdent", "letAssign"} => p'.errors = p.errors
        /\ ErrorsInSourceOrder' ]_vars

C14_Witness ==
    /\ pc = "done"
    /\ Len(Errors(p)) = 2
    /\ Errors(p)[1] # Errors(p)[2]
    /\ \E n \in DOMAIN Statements : Statements[n].dyn = PtrReturn /\ starts[n] > failed[1]

\* C15: each line is parsed by a parser built for it from that line alone, so
\* what is reported for a line is what that line's own lets produced, and a
\* line whose parse left no diagnostic is evaluated whatever the lines before
\* it left.
C15_LinesIsolated ==
    [][ /\ (replPc = "parse" /\ pc = "new") =>
            /\ p'.errors = << >>
            /\ p'.l.input = src
        /\ (replPc = "parse" /\ pc = "done" /\ failed # << >>) =>
            written' = printParserErrors([i \in DOMAIN failed |-> MsgAt(failed[i])])
        /\ (replPc = "parse" /\ pc = "done" /\ failed = << >>) =>
            /\ written' \in { << >>, << "Inspect", "\n" >> }
            /\ Len(evalCalls') = Len(evalCalls) + 1
            /\ evalCalls'[Len(evalCalls')].line = scanned
            /\ out'[Len(out')].kind # "errors" ]_vars

\* A line with a diagnostic, then a line without that is evaluated to nothing.
C15_Witness ==
    /\ Len(out) = 2
    /\ out[1].kind = "errors"
    /\ out[2].kind = "none"
    /\ \E j \in DOMAIN evalCalls : evalCalls[j].line = 2

\* The table a registration went to.
TableOf(q, r) == IF r.table = "prefix" THEN q.prefixParseFns ELSE q.infixParseFns

\* C16: on a Parser returned by New, registerPrefix(kind, fn) and
\* registerInfix(kind, fn) return normally and afterwards the table they wrote
\* to maps kind to fn.
C16_TablesUsable ==
    registered # << >> =>
        LET r == registered[Len(registered)]
        IN  /\ pc # "panic"
            /\ TableOf(p, r) # NilMap
            /\ r.kind \in DOMAIN TableOf(p, r)
            /\ TableOf(p, r)[r.kind] = r.fn

====
